---- MODULE Spec2Model ----
(***************************************************************************)
(* A model of the Spotify playlist downloader (src/main.py, src/cli.py):   *)
(* the duration parser, the search-result traversal and match selection of *)
(* get_song_url, the batch loop of get_song_urls, download_from_urls and   *)
(* the download command of the CLI.                                        *)
(*                                                                         *)
(* A text that the code parses is a sequence of one-character strings; a   *)
(* text that the code only copies (titles, video ids) is a string.         *)
(***************************************************************************)
EXTENDS Integers, Sequences, FiniteSets, TLC

VARIABLES
  pc,        \* position of the operation in progress
  text,      \* argument of _convert_to_milliseconds
  parsed,    \* what _convert_to_milliseconds returned or raised
  song_info, \* argument of get_song_url
  data,      \* the document client.search returned
  outcome,   \* what get_song_url returned or raised
  provider,      \* the pages Public.playlist_info(playlist_id) yields, in order
  items,         \* the first page of items the playlist provider yielded
  playlist_info, \* the list get_playlist_info returned
  idx,           \* position of the for loop of get_song_urls (1-based)
  urls,          \* the list get_song_urls accumulates
  attempts,      \* what get_song_url returned or raised, per finished attempt
  events,        \* the calls made so far: client construction, search, sleep, dispatch
  client,        \* self._client of the PlaylistDownloader of get_song_urls
  dir_exists,    \* whether download_path exists
  mkdirs,        \* calls of download_path.mkdir
  downloads,     \* the url lists ydl.download received
  raised,        \* the call of the download command that raised, if any
  exit_code      \* <<>> while the command runs, then <<code>>

vars == <<pc, text, parsed, song_info, data, outcome, provider, items, playlist_info, idx, urls,
          attempts, events, client, dir_exists, mkdirs, downloads, raised, exit_code>>

runVars == <<provider, items, playlist_info, idx, urls, attempts, events, client, dir_exists,
             mkdirs, downloads, raised, exit_code>>

----------------------------------------------------------------------------
(* Bounds of the model *)

MaxTextLen == 4     \* longest arbitrary duration text
MaxMinutes == 11    \* largest m of a formatted text "m:s"
MaxSeconds == 61    \* largest s of a formatted text "m:s" (beyond 59 on purpose)
MaxMarkers == 2     \* most leading "did you mean" sections of a document
MaxTracks == 3      \* most items of a playlist page

----------------------------------------------------------------------------
(* Results of calls: a value returned or an exception raised *)

Return(v) == [ok |-> TRUE, value |-> v, exc |-> "", msg |-> ""]

Raise(e, m) == [ok |-> FALSE, value |-> 0, exc |-> e, msg |-> m]

NotCalled == Raise("", "not called")

Abs(n) == IF n < 0 THEN -n ELSE n

----------------------------------------------------------------------------
(* str.split(":") and int() of Python, as _convert_to_milliseconds uses them *)

Digits == <<"0", "1", "2", "3", "4", "5", "6", "7", "8", "9">>

IsDigit(c) == \E d \in 1..10 : Digits[d] = c

DigitVal(c) == (CHOOSE d \in 1..10 : Digits[d] = c) - 1

IsSpace(c) == c = " "

\* text.split(":"): the segments between the colons, empty segments kept
RECURSIVE SplitAcc(_, _)
SplitAcc(rest, cur) ==
  IF rest = <<>> THEN <<cur>>
  ELSE IF Head(rest) = ":" THEN <<cur>> \o SplitAcc(Tail(rest), <<>>)
  ELSE SplitAcc(Tail(rest), Append(cur, Head(rest)))

str_split(t) == SplitAcc(t, <<>>)

\* int() strips the surrounding whitespace first
RECURSIVE LStrip(_)
LStrip(s) == IF s # <<>> /\ IsSpace(Head(s)) THEN LStrip(Tail(s)) ELSE s

RECURSIVE RStrip(_)
RStrip(s) ==
  IF s # <<>> /\ IsSpace(s[Len(s)]) THEN RStrip(SubSeq(s, 1, Len(s) - 1)) ELSE s

Strip(s) == RStrip(LStrip(s))

HasSign(s) == s # <<>> /\ Head(s) \in {"-", "+"}

Unsigned(s) == IF HasSign(s) THEN Tail(s) ELSE s

\* the digits of an integer literal: decimal digits, single underscores between them
DigitsOK(b) ==
  /\ b # <<>>
  /\ \A i \in 1..Len(b) : IsDigit(b[i]) \/ b[i] = "_"
  /\ IsDigit(b[1]) /\ IsDigit(b[Len(b)])
  /\ \A i \in 1..(Len(b) - 1) : ~(b[i] = "_" /\ b[i + 1] = "_")

RECURSIVE DigitsValue(_)
DigitsValue(b) ==
  IF b = <<>> THEN 0
  ELSE IF b[Len(b)] = "_" THEN DigitsValue(SubSeq(b, 1, Len(b) - 1))
  ELSE DigitsValue(SubSeq(b, 1, Len(b) - 1)) * 10 + DigitVal(b[Len(b)])

\* int(s) accepts s
int_ok(s) == DigitsOK(Unsigned(Strip(s)))

\* int(s), when it accepts s
int_value(s) ==
  LET t == Strip(s)
      v == DigitsValue(Unsigned(t))
  IN IF HasSign(t) /\ Head(t) = "-" THEN -v ELSE v

\* str(n) for n >= 0, the decimal text of n
RECURSIVE str(_)
str(n) == IF n < 10 THEN <<Digits[n + 1]>> ELSE str(n \div 10) \o <<Digits[(n % 10) + 1]>>

----------------------------------------------------------------------------
(* PlaylistDownloader._convert_to_milliseconds *)

\* variants of _convert_to_milliseconds: seconds scaled alone; extra segments dropped
convert_seconds_scaled(t) ==
  LET parts == str_split(t) IN
  IF Len(parts) < 2 THEN Raise("ValueError", "not enough values to unpack")
  ELSE IF Len(parts) > 2 THEN Raise("ValueError", "too many values to unpack")
  ELSE IF ~int_ok(parts[1]) THEN Raise("ValueError", "invalid literal for int()")
  ELSE IF ~int_ok(parts[2]) THEN Raise("ValueError", "invalid literal for int()")
  ELSE Return(int_value(parts[1]) * 60 + int_value(parts[2]) * 1000)

convert_first_two_segments(t) ==
  LET parts == str_split(t) IN
  IF Len(parts) < 2 THEN Raise("ValueError", "not enough values to unpack")
  ELSE IF ~int_ok(parts[1]) THEN Raise("ValueError", "invalid literal for int()")
  ELSE IF ~int_ok(parts[2]) THEN Raise("ValueError", "invalid literal for int()")
  ELSE Return((int_value(parts[1]) * 60 + int_value(parts[2])) * 1000)

convert_to_milliseconds(t) ==
  LET parts == str_split(t) IN
  IF Len(parts) < 2 THEN Raise("ValueError", "not enough values to unpack")
  ELSE IF Len(parts) > 2 THEN Raise("ValueError", "too many values to unpack")
  ELSE IF ~int_ok(parts[1]) THEN Raise("ValueError", "invalid literal for int()")
  ELSE IF ~int_ok(parts[2]) THEN Raise("ValueError", "invalid literal for int()")
  ELSE Return((int_value(parts[1]) * 60 + int_value(parts[2])) * 1000)

----------------------------------------------------------------------------
(* The search document.  data["contents"]["tabbedSearchResultsRenderer"]    *)
(* ["tabs"][0]["tabRenderer"]["content"]["sectionListRenderer"]["contents"] *)
(* is the list of sections: `path` says whether that chain of lookups       *)
(* succeeds ("ok") or which exception it raises, `sections` is the list.    *)
(* A section is a dict: `keys` are the keys it has.  A dict value that a    *)
(* document may lack is a record with a `has` flag.                         *)

MarkerKey == "itemSectionRenderer"
CardKey == "musicCardShelfRenderer"
ShelfKey == "musicShelfRenderer"

Absent == [has |-> FALSE, runs |-> <<>>]

Runs(r) == [has |-> TRUE, runs |-> r]

NoCard == [title |-> Absent, subtitle |-> Absent]

NoShelf == [contents |-> <<>>]

\* title.runs[0] of the card: its text and its navigationEndpoint.watchEndpoint.videoId
TitleRun(hasText, hasId) ==
  [hasText |-> hasText, text |-> "Top title", hasId |-> hasId, videoId |-> "top_video_id"]

CardTitles ==
  { Runs(<<TitleRun(TRUE, TRUE)>>), Runs(<<TitleRun(TRUE, FALSE)>>),
    Runs(<<TitleRun(FALSE, TRUE)>>), Runs(<<>>) }

\* the duration texts the documents carry: well-formed ones (the two of the
\* test among them) and a malformed one
DurationTexts ==
  { <<"0", ":", "0", "1">>, <<"0", ":", "0", "3">>, <<"5", ":", "5", "5">>,
    <<"6", ":", "0", "7">>, <<"0", ":", "0", "x">> }

\* subtitle.runs / column text.runs ending in a duration text
DurationRuns == { Runs(<<[text |-> <<"Q">>], [text |-> d]>>) : d \in DurationTexts }

Cards == [title : CardTitles, subtitle : DurationRuns \cup {Absent, Runs(<<>>)}]

\* flexColumns[0]: the title column, with two text runs or none
TitleColumns ==
  { Runs(<<[text |-> "First run"], [text |-> "Last run"]>>), Absent }

Overlays == { [has |-> TRUE, videoId |-> "list_video_id"], [has |-> FALSE, videoId |-> ""] }

\* contents[0] of the shelf: musicResponsiveListItemRenderer
ListItems ==
  [flexColumns : {<<t>> : t \in TitleColumns}
                   \cup {<<t, d>> : t \in TitleColumns, d \in DurationRuns},
   overlay : Overlays]

Shelves == {NoShelf} \cup {[contents |-> <<i>>] : i \in ListItems}

CardSection(c) == [keys |-> {CardKey}, card |-> c, shelf |-> NoShelf]

ShelfSection(s) == [keys |-> {ShelfKey}, card |-> NoCard, shelf |-> s]

\* a "did you mean" section, and one that carries a card as well
MarkerSection == [keys |-> {MarkerKey}, card |-> NoCard, shelf |-> NoShelf]

GoodCard ==
  [title |-> Runs(<<TitleRun(TRUE, TRUE)>>),
   subtitle |-> Runs(<<[text |-> <<"Q">>], [text |-> <<"0", ":", "0", "1">>]>>)]

MarkerCardSection == [keys |-> {MarkerKey, CardKey}, card |-> GoodCard, shelf |-> NoShelf]

RECURSIVE SeqsUpTo(_, _)
SeqsUpTo(S, n) ==
  IF n = 0 THEN {<<>>}
  ELSE LET shorter == SeqsUpTo(S, n - 1)
       IN shorter \cup {Append(q, x) : q \in shorter, x \in S}

MarkerPrefixes == SeqsUpTo({MarkerSection, MarkerCardSection}, MaxMarkers)

\* the sections after the markers: none, a card, a card and a shelf, a shelf alone
Bodies ==
  {<<>>} \cup {<<CardSection(c)>> : c \in Cards}
         \cup {<<CardSection(c), ShelfSection(s)>> : c \in Cards, s \in Shelves}
         \cup {<<ShelfSection(s)>> : s \in Shelves}

Document(p, secs) == [path |-> p, sections |-> secs]

Documents ==
  {Document("ok", m \o b) : m \in MarkerPrefixes, b \in Bodies}
    \cup {Document("KeyError", <<>>), Document("IndexError", <<>>)}

\* SongInfo: title, artist, length in milliseconds
Song(t, a, l) == [title |-> t, artist |-> a, length |-> l]

Songs == {Song("Song 1", "Artist 1", l) : l \in {0, 1000, 2000, 3000, 4000, 354000}}

----------------------------------------------------------------------------
(* The lookups of get_song_url: each returns the value found or the        *)
(* exception (KeyError, IndexError) the chain of subscripts raises.        *)

Found(v) == [ok |-> TRUE, val |-> v, exc |-> ""]

Missing(e) == [ok |-> FALSE, val |-> <<>>, exc |-> e]

\* contents[0]["musicCardShelfRenderer"]
TopCard(contents) ==
  IF Len(contents) < 1 THEN Missing("IndexError")
  ELSE IF CardKey \notin contents[1].keys THEN Missing("KeyError")
  ELSE Found(contents[1].card)

\* ...["subtitle"]["runs"][-1]["text"]
TopResultLength(contents) ==
  LET c == TopCard(contents) IN
  IF ~c.ok THEN c
  ELSE IF ~c.val.subtitle.has THEN Missing("KeyError")
  ELSE IF c.val.subtitle.runs = <<>> THEN Missing("IndexError")
  ELSE Found(c.val.subtitle.runs[Len(c.val.subtitle.runs)].text)

\* ...["title"]["runs"][0]
TopTitleRun(contents) ==
  LET c == TopCard(contents) IN
  IF ~c.ok THEN c
  ELSE IF ~c.val.title.has THEN Missing("KeyError")
  ELSE IF c.val.title.runs = <<>> THEN Missing("IndexError")
  ELSE Found(c.val.title.runs[1])

\* ...["navigationEndpoint"]["watchEndpoint"]["videoId"]
TopVideoId(contents) ==
  LET r == TopTitleRun(contents) IN
  IF ~r.ok THEN r
  ELSE IF ~r.val.hasId THEN Missing("KeyError")
  ELSE Found(r.val.videoId)

\* ...["text"]
TopVideoTitle(contents) ==
  LET r == TopTitleRun(contents) IN
  IF ~r.ok THEN r
  ELSE IF ~r.val.hasText THEN Missing("KeyError")
  ELSE Found(r.val.text)

\* contents[1]["musicShelfRenderer"]["contents"][0]["musicResponsiveListItemRenderer"]
FirstSong(contents) ==
  IF Len(contents) < 2 THEN Missing("IndexError")
  ELSE IF ShelfKey \notin contents[2].keys THEN Missing("KeyError")
  ELSE IF contents[2].shelf.contents = <<>> THEN Missing("IndexError")
  ELSE Found(contents[2].shelf.contents[1])

\* ...["flexColumns"][1][...]["text"]["runs"][-1]["text"]
FirstSongLength(contents) ==
  LET i == FirstSong(contents) IN
  IF ~i.ok THEN i
  ELSE IF Len(i.val.flexColumns) < 2 THEN Missing("IndexError")
  ELSE IF ~i.val.flexColumns[2].has THEN Missing("KeyError")
  ELSE IF i.val.flexColumns[2].runs = <<>> THEN Missing("IndexError")
  ELSE Found(i.val.flexColumns[2].runs[Len(i.val.flexColumns[2].runs)].text)

\* ...["overlay"][...]["playNavigationEndpoint"]["watchEndpoint"]["videoId"]
FirstSongVideoId(contents) ==
  LET i == FirstSong(contents) IN
  IF ~i.ok THEN i
  ELSE IF ~i.val.overlay.has THEN Missing("KeyError")
  ELSE Found(i.val.overlay.videoId)

\* variant: the title is the last run of the first column
FirstSongVideoTitleLastRun(contents) ==
  LET i == FirstSong(contents) IN
  IF ~i.ok THEN i
  ELSE IF Len(i.val.flexColumns) < 1 THEN Missing("IndexError")
  ELSE IF ~i.val.flexColumns[1].has THEN Missing("KeyError")
  ELSE IF i.val.flexColumns[1].runs = <<>> THEN Missing("IndexError")
  ELSE Found(i.val.flexColumns[1].runs[Len(i.val.flexColumns[1].runs)].text)

\* ...["flexColumns"][0][...]["text"]["runs"][0]["text"]
FirstSongVideoTitle(contents) ==
  LET i == FirstSong(contents) IN
  IF ~i.ok THEN i
  ELSE IF Len(i.val.flexColumns) < 1 THEN Missing("IndexError")
  ELSE IF ~i.val.flexColumns[1].has THEN Missing("KeyError")
  ELSE IF i.val.flexColumns[1].runs = <<>> THEN Missing("IndexError")
  ELSE Found(i.val.flexColumns[1].runs[1].text)

----------------------------------------------------------------------------
(* PlaylistDownloader.get_song_url *)

UrlPrefix == "https://music.youtube.com/watch?v="

Matched(url, title) == [ok |-> TRUE, url |-> url, title |-> title, exc |-> "", msg |-> ""]

Failed(e, m) == [ok |-> FALSE, url |-> "", title |-> "", exc |-> e, msg |-> m]

NotSearched == Failed("", "not called")

\* the ValueError the except clause raises
MatchError(song) ==
  Failed("ValueError",
         "Failed to find matching song for " \o song.title \o " by " \o song.artist)

\* variant: every leading marker section is deleted
RECURSIVE SkipEveryDidYouMean(_)
SkipEveryDidYouMean(contents) ==
  IF contents # <<>> /\ MarkerKey \in contents[1].keys
  THEN SkipEveryDidYouMean(Tail(contents))
  ELSE contents

\* the "did you mean" case: del contents[0] when it has the marker key
SkipDidYouMean(contents) ==
  IF MarkerKey \in contents[1].keys THEN Tail(contents) ELSE contents

\* url and title of one candidate, inside the try block
SelectedResult(song, id, title) ==
  IF ~id.ok \/ ~title.ok THEN MatchError(song)
  ELSE Matched(UrlPrefix \o id.val, title.val)

\* variant: a tie selects the top result
TopIsCloserOrEqual(top_result_diff, first_song_diff) == top_result_diff <= first_song_diff

\* the comparison of the two differences
TopIsCloser(top_result_diff, first_song_diff) == top_result_diff < first_song_diff

\* variant: url and title of both candidates are read before the comparison
ExtractBothThenSelect(song, contents) ==
  LET top_result_length == TopResultLength(contents) IN
  IF ~top_result_length.ok THEN MatchError(song)
  ELSE LET top_ms == convert_to_milliseconds(top_result_length.val) IN
  IF ~top_ms.ok THEN Failed(top_ms.exc, top_ms.msg)
  ELSE LET first_song_length == FirstSongLength(contents) IN
  IF ~first_song_length.ok THEN MatchError(song)
  ELSE LET list_ms == convert_to_milliseconds(first_song_length.val) IN
  IF ~list_ms.ok THEN Failed(list_ms.exc, list_ms.msg)
  ELSE IF \/ ~TopVideoId(contents).ok \/ ~TopVideoTitle(contents).ok
          \/ ~FirstSongVideoId(contents).ok \/ ~FirstSongVideoTitle(contents).ok
       THEN MatchError(song)
  ELSE IF TopIsCloser(Abs(top_ms.value - song.length), Abs(list_ms.value - song.length))
       THEN SelectedResult(song, TopVideoId(contents), TopVideoTitle(contents))
       ELSE SelectedResult(song, FirstSongVideoId(contents), FirstSongVideoTitle(contents))

\* the try block: KeyError and IndexError become the ValueError of the except
\* clause, an exception of _convert_to_milliseconds passes through
ExtractAndSelect(song, contents) ==
  LET top_result_length == TopResultLength(contents) IN
  IF ~top_result_length.ok THEN MatchError(song)
  ELSE LET top_ms == convert_to_milliseconds(top_result_length.val) IN
  IF ~top_ms.ok THEN Failed(top_ms.exc, top_ms.msg)
  ELSE LET first_song_length == FirstSongLength(contents) IN
  IF ~first_song_length.ok THEN MatchError(song)
  ELSE LET list_ms == convert_to_milliseconds(first_song_length.val) IN
  IF ~list_ms.ok THEN Failed(list_ms.exc, list_ms.msg)
  ELSE IF TopIsCloser(Abs(top_ms.value - song.length), Abs(list_ms.value - song.length))
       THEN SelectedResult(song, TopVideoId(contents), TopVideoTitle(contents))
       ELSE SelectedResult(song, FirstSongVideoId(contents), FirstSongVideoTitle(contents))

\* get_song_url on the document the search returned; the marker test is
\* outside the try block, so what it raises is not converted
get_song_url(song, doc) ==
  IF doc.path # "ok" THEN Failed(doc.path, "contents")
  ELSE IF doc.sections = <<>> THEN Failed("IndexError", "list index out of range")
  ELSE ExtractAndSelect(song, SkipDidYouMean(doc.sections))

----------------------------------------------------------------------------
(* Inputs of the duration parser *)

Chars == {"0", "1", "7", ":", "-", "+", " ", "_", "x"}

\* "m:s" for non-negative integers m and s
Formatted(m, s) == str(m) \o <<":">> \o str(s)

FormattedTexts == {Formatted(m, s) : m \in 0..MaxMinutes, s \in 0..MaxSeconds}

\* texts the documentation and the tests name, and two longer ones
ExampleTexts ==
  { <<"3", ":", "4", "5">>, <<"0", ":", "3", "0">>, <<"1", ":", "0", "0">>,
    <<"-", "1", ":", "3", "0">>, <<"1", ":", "0", "2", ":", "0", "3">>, <<"3", "4", "5">> }

ParseTexts == FormattedTexts \cup ExampleTexts \cup SeqsUpTo(Chars, MaxTextLen)

----------------------------------------------------------------------------
(* Specification of the duration parser: one call on any input text *)

IdleDocument == Document("KeyError", <<>>)

IdleSong == Song("", "", 0)

\* the state of a download command that has not started
IdleRun ==
  /\ provider = <<>>
  /\ items = <<>>
  /\ playlist_info = <<>>
  /\ idx = 1
  /\ urls = <<>>
  /\ attempts = <<>>
  /\ events = <<>>
  /\ client = "None"
  /\ dir_exists = FALSE
  /\ mkdirs = 0
  /\ downloads = <<>>
  /\ raised = ""
  /\ exit_code = <<>>

InitParse ==
  /\ pc = "convert"
  /\ text \in ParseTexts
  /\ parsed = NotCalled
  /\ song_info = IdleSong
  /\ data = IdleDocument
  /\ outcome = NotSearched
  /\ IdleRun

Convert ==
  /\ pc = "convert"
  /\ parsed' = convert_to_milliseconds(text)
  /\ pc' = "converted"
  /\ UNCHANGED <<text, song_info, data, outcome, runVars>>

NextParse == Convert

SpecParse == InitParse /\ [][NextParse]_vars

----------------------------------------------------------------------------
(* Specification of the match selector: one call of get_song_url on any    *)
(* target and any document                                                 *)

InitMatch ==
  /\ pc = "search"
  /\ text = <<>>
  /\ parsed = NotCalled
  /\ song_info \in Songs
  /\ data \in Documents
  /\ outcome = NotSearched
  /\ IdleRun

GetSongUrl ==
  /\ pc = "search"
  /\ outcome' = get_song_url(song_info, data)
  /\ pc' = "returned"
  /\ UNCHANGED <<text, parsed, song_info, data, runVars>>

NextMatch == GetSongUrl

SpecMatch == InitMatch /\ [][NextMatch]_vars

----------------------------------------------------------------------------
(* PlaylistDownloader.get_playlist_info: the items of the first page, each *)
(* item["itemV2"]["data"] with its name, artists and trackDuration         *)

PlaylistItem(hasName, name, artists, ms) ==
  [hasName |-> hasName, name |-> name, artists |-> artists, totalMilliseconds |-> ms]

ItemOf(song) == PlaylistItem(TRUE, song.title, <<song.artist, "Guest">>, str(song.length))

RunSongs == {Song("Song 1", "Artist 1", 2000), Song("Song 2", "Artist 2", 3000)}

\* well-formed items, and items without a name, without artists, with a bad duration
PageItems ==
  {ItemOf(sg) : sg \in RunSongs}
    \cup { PlaylistItem(FALSE, "", <<"Artist 3">>, str(1000)),
           PlaylistItem(TRUE, "Song 4", <<>>, str(1000)),
           PlaylistItem(TRUE, "Song 5", <<"Artist 5">>, <<"x">>) }

Pages == SeqsUpTo(PageItems, MaxTracks)

\* what the generator yields: nothing, one page, or a second page after it
\* (with a well-formed item, or with an item that has no artists)
LaterPages ==
  { <<ItemOf(Song("Song 6", "Artist 6", 1000))>>, <<PlaylistItem(TRUE, "Song 7", <<>>, str(1000))>> }

ProviderPages ==
  {<<>>} \cup {<<p>> : p \in Pages} \cup {<<p, q>> : p \in Pages, q \in LaterPages}

\* next(Public.playlist_info(playlist_id))["items"]: the items of the first page
\* yielded; StopIteration when the generator yields none
FirstPage(pages) ==
  IF pages = <<>> THEN Missing("StopIteration") ELSE Found(pages[1])

\* SongInfo(title=..., artist=..., length=int(...)) of one item
ItemSong(item) ==
  IF ~item.hasName THEN Missing("KeyError")
  ELSE IF item.artists = <<>> THEN Missing("IndexError")
  ELSE IF ~int_ok(item.totalMilliseconds) THEN Missing("ValueError")
  ELSE Found(Song(item.name, item.artists[1], int_value(item.totalMilliseconds)))

\* variant: an item that raises is skipped
RECURSIVE get_playlist_info_skipping(_)
get_playlist_info_skipping(page) ==
  IF page = <<>> THEN Found(<<>>)
  ELSE LET first == ItemSong(Head(page))
           rest == get_playlist_info_skipping(Tail(page))
       IN IF ~first.ok THEN rest ELSE Found(<<first.val>> \o rest.val)

\* the for loop over the items: the first item that raises ends the call
RECURSIVE get_playlist_info(_)
get_playlist_info(page) ==
  IF page = <<>> THEN Found(<<>>)
  ELSE LET first == ItemSong(Head(page)) IN
       IF ~first.ok THEN first
       ELSE LET rest == get_playlist_info(Tail(page)) IN
            IF ~rest.ok THEN rest ELSE Found(<<first.val>> \o rest.val)

----------------------------------------------------------------------------
(* PlaylistDownloader.get_song_urls, one iteration of its for loop at a time *)

SleepMin == 1
SleepMax == 3

\* what client.search returns in a run: a document with both candidates, one
\* without the shelf, one without sections; or the search raises
DocBoth ==
  Document("ok",
    << CardSection([title |-> Runs(<<TitleRun(TRUE, TRUE)>>),
                    subtitle |-> Runs(<<[text |-> <<"Q">>], [text |-> <<"0", ":", "0", "3">>]>>)]),
       ShelfSection([contents |->
         <<[flexColumns |->
              << Runs(<<[text |-> "First run"], [text |-> "Last run"]>>),
                 Runs(<<[text |-> <<"Q">>], [text |-> <<"0", ":", "0", "1">>]>>) >>,
            overlay |-> [has |-> TRUE, videoId |-> "list_video_id"]]>>]) >>)

DocNoShelf == Document("ok", <<CardSection(GoodCard)>>)

DocNoSections == Document("ok", <<>>)

SearchReplies ==
  {[ok |-> TRUE, doc |-> d] : d \in {DocBoth, DocNoShelf, DocNoSections}}
    \cup {[ok |-> FALSE, doc |-> IdleDocument]}

Event(call, track, query, delay) ==
  [call |-> call, track |-> track, query |-> query, delay |-> delay]

\* variant: the client is constructed at every access
ClientEventsUncached(c, track) ==
  <<Event("InnerTube", track, "WEB_REMIX 1.20250203.01.00", 0)>>

\* the client property: InnerTube(...) is constructed when self._client is None
ClientEvents(c, track) ==
  IF c = "None" THEN <<Event("InnerTube", track, "WEB_REMIX 1.20250203.01.00", 0)>> ELSE <<>>

\* variant: the title alone
SearchQueryTitleOnly(song) == song.title

\* search_query = f"{song_info.title} {song_info.artist}"
SearchQuery(song) == song.title \o " " \o song.artist

\* self.get_song_url(song_info): the search, then the match on its document
SearchAndMatch(song, reply) ==
  IF reply.ok THEN get_song_url(song, reply.doc)
  ELSE Failed("ConnectionError", "search failed")

\* urls.append(url)
AppendUrl(us, url) == Append(us, url)

\* variant: except ValueError
CatchesValueError(exc) == exc = "ValueError"

\* except Exception: every exception of get_song_url is caught
Catches(exc) == TRUE

\* variant: return urls inside the loop body
LoopFinishedAfterFirst(i, playlist) == i > 1 \/ i > Len(playlist)

\* the for loop has run over every song_info
LoopFinished(i, playlist) == i > Len(playlist)

\* the urls of the attempts that succeeded, in the order of the attempts
RECURSIVE OkUrls(_)
OkUrls(as) ==
  IF as = <<>> THEN <<>>
  ELSE IF Head(as).ok THEN <<Head(as).url>> \o OkUrls(Tail(as))
  ELSE OkUrls(Tail(as))

----------------------------------------------------------------------------
(* The download command of src/cli.py *)

\* variant: the error is logged and the command returns
ExitCodeLoggedOnly(r) == 0

\* try: ... except Exception: raise typer.Exit(code=1)
ExitCode(r) == IF r # "" THEN 1 ELSE 0

Init ==
  /\ pc = "fetch"
  /\ text = <<>>
  /\ parsed = NotCalled
  /\ song_info = IdleSong
  /\ data = IdleDocument
  /\ outcome = NotSearched
  /\ provider \in ProviderPages
  /\ items = <<>>
  /\ playlist_info = <<>>
  /\ idx = 1
  /\ urls = <<>>
  /\ attempts = <<>>
  /\ events = <<>>
  /\ client = "None"
  /\ dir_exists \in BOOLEAN
  /\ mkdirs = 0
  /\ downloads = <<>>
  /\ raised = ""
  /\ exit_code = <<>>

\* Public.playlist_info(playlist_id) raises
ProviderRaises ==
  /\ pc = "fetch"
  /\ raised' = "get_playlist_info"
  /\ exit_code' = <<ExitCode("get_playlist_info")>>
  /\ pc' = "done"
  /\ UNCHANGED <<text, parsed, song_info, data, outcome, provider, items, playlist_info, idx, urls,
                 attempts, events, client, dir_exists, mkdirs, downloads>>

\* get_playlist_info on the first page: a list, or the exception of a bad item
FetchPlaylist ==
  /\ pc = "fetch"
  /\ LET page == FirstPage(provider)
         r == IF page.ok THEN get_playlist_info(page.val) ELSE page
     IN /\ items' = IF page.ok THEN page.val ELSE <<>>
        /\ IF r.ok
           THEN /\ playlist_info' = r.val
                /\ pc' = "loop"
                /\ UNCHANGED <<raised, exit_code>>
           ELSE /\ raised' = "get_playlist_info"
                /\ exit_code' = <<ExitCode("get_playlist_info")>>
                /\ pc' = "done"
                /\ UNCHANGED playlist_info
  /\ UNCHANGED <<text, parsed, song_info, data, outcome, provider, idx, urls, attempts,
                 events, client, dir_exists, mkdirs, downloads>>

\* one iteration of the loop up to the sleep: the search and the match, then
\* the append (try) or the logged error (except)
GetUrl ==
  /\ pc = "loop"
  /\ ~LoopFinished(idx, playlist_info)
  /\ \E reply \in SearchReplies :
       LET song == playlist_info[idx]
           o == SearchAndMatch(song, reply)
       IN /\ events' = events \o ClientEvents(client, idx)
                              \o <<Event("search", idx, SearchQuery(song), 0)>>
          /\ client' = "InnerTube"
          /\ attempts' = Append(attempts, o)
          /\ IF o.ok
             THEN /\ urls' = AppendUrl(urls, o.url)
                  /\ pc' = "sleep"
                  /\ UNCHANGED <<idx, raised, exit_code>>
             ELSE IF Catches(o.exc)
             THEN /\ idx' = idx + 1
                  /\ UNCHANGED <<urls, pc, raised, exit_code>>
             ELSE /\ raised' = "get_song_urls"
                  /\ exit_code' = <<ExitCode("get_song_urls")>>
                  /\ pc' = "done"
                  /\ UNCHANGED <<urls, idx>>
  /\ UNCHANGED <<text, parsed, song_info, data, outcome, provider, items, playlist_info,
                 dir_exists, mkdirs, downloads>>

\* sleep(uniform(1, 3)), the last statement of the try block
Sleep ==
  /\ pc = "sleep"
  /\ \E delay \in SleepMin..SleepMax :
       events' = Append(events, Event("sleep", idx, "", delay))
  /\ idx' = idx + 1
  /\ pc' = "loop"
  /\ UNCHANGED <<text, parsed, song_info, data, outcome, provider, items, playlist_info, urls,
                 attempts, client, dir_exists, mkdirs, downloads, raised, exit_code>>

\* return urls
ReturnUrls ==
  /\ pc = "loop"
  /\ LoopFinished(idx, playlist_info)
  /\ pc' = "dispatch"
  /\ UNCHANGED <<text, parsed, song_info, data, outcome, provider, items, playlist_info, idx, urls,
                 attempts, events, client, dir_exists, mkdirs, downloads, raised, exit_code>>

\* variant: download_path.mkdir(parents=True) whether the path exists or not
NeedsMkdirAlways(exists) == TRUE

\* if not download_path.exists(): download_path.mkdir(parents=True)
NeedsMkdir(exists) == ~exists

\* the calls of download_from_urls on a non-empty list, in order: mkdir when
\* needed, YoutubeDL(options), ydl.download(urls)
DispatchEvents(exists) ==
  (IF NeedsMkdir(exists) THEN <<Event("mkdir", 0, "parents=True", 0)>> ELSE <<>>)
    \o <<Event("YoutubeDL", 0, "", 0), Event("download", 0, "", 0)>>

\* download_from_urls with no urls: the warning and the return
DownloadNothing ==
  /\ pc = "dispatch"
  /\ urls = <<>>
  /\ exit_code' = <<ExitCode("")>>
  /\ pc' = "done"
  /\ UNCHANGED <<text, parsed, song_info, data, outcome, provider, items, playlist_info, idx, urls,
                 attempts, events, client, dir_exists, mkdirs, downloads, raised>>

\* download_from_urls: mkdir when the path does not exist, then ydl.download(urls),
\* which returns or raises
DownloadFromUrls ==
  /\ pc = "dispatch"
  /\ urls # <<>>
  /\ mkdirs' = IF NeedsMkdir(dir_exists) THEN mkdirs + 1 ELSE mkdirs
  /\ dir_exists' = TRUE
  /\ downloads' = Append(downloads, urls)
  /\ events' = events \o DispatchEvents(dir_exists)
  /\ \E r \in {"", "download_from_urls"} :
       /\ raised' = r
       /\ exit_code' = <<ExitCode(r)>>
  /\ pc' = "done"
  /\ UNCHANGED <<text, parsed, song_info, data, outcome, provider, items, playlist_info,
                 idx, urls, attempts, client>>

Next ==
  \/ ProviderRaises
  \/ FetchPlaylist
  \/ GetUrl
  \/ Sleep
  \/ ReturnUrls
  \/ DownloadNothing
  \/ DownloadFromUrls

Spec == Init /\ [][Next]_vars

----------------------------------------------------------------------------
(* Properties of the duration parser, under SpecParse *)

T345 == <<"3", ":", "4", "5">>
T030 == <<"0", ":", "3", "0">>
T100 == <<"1", ":", "0", "0">>
TNeg130 == <<"-", "1", ":", "3", "0">>
T10203 == <<"1", ":", "0", "2", ":", "0", "3">>

\* C5: for all non-negative integers m and s, _convert_to_milliseconds("m:s")
\* returns (m*60 + s)*1000, with no bound on m or s; "3:45" gives 225000,
\* "0:30" gives 30000, "1:00" gives 60000.
C5_FormattedValue ==
  pc = "converted" =>
    /\ \A m \in 0..MaxMinutes, s \in 0..MaxSeconds :
         text = Formatted(m, s) => parsed = Return((m * 60 + s) * 1000)
    /\ text = T345 => parsed = Return(225000)
    /\ text = T030 => parsed = Return(30000)
    /\ text = T100 => parsed = Return(60000)

\* a text with seconds beyond 59 has been converted
C5_Witness ==
  /\ pc = "converted"
  /\ text = <<"1", "1", ":", "6", "1">>
  /\ parsed = Return(721000)

\* the number of colons of a text, and the texts before and after its first colon
ColonCount(t) == Cardinality({i \in 1..Len(t) : t[i] = ":"})

FirstColon(t) == CHOOSE i \in 1..Len(t) : t[i] = ":" /\ \A j \in 1..(i - 1) : t[j] # ":"

BeforeColon(t) == SubSeq(t, 1, FirstColon(t) - 1)

AfterColon(t) == SubSeq(t, FirstColon(t) + 1, Len(t))

\* exactly two colon-separated segments, each of which int() accepts
TwoIntegerSegments(t) ==
  /\ ColonCount(t) = 1
  /\ int_ok(BeforeColon(t))
  /\ int_ok(AfterColon(t))

\* ... and each is a non-negative integer
TwoNonNegativeSegments(t) ==
  /\ TwoIntegerSegments(t)
  /\ int_value(BeforeColon(t)) >= 0
  /\ int_value(AfterColon(t)) >= 0

\* C6 (as claimed): _convert_to_milliseconds fails, and returns no value, for
\* every input that is not exactly two colon-separated segments each parsing
\* as a non-negative integer, a negative segment such as "-1:30" included.
C6_FailsUnlessNonNegative ==
  (pc = "converted" /\ ~TwoNonNegativeSegments(text)) => ~parsed.ok

\* C6 (amended): _convert_to_milliseconds fails with a ValueError, and returns
\* no value, exactly for the inputs that are not two colon-separated segments
\* each accepted by int(): non-numeric segments, no colon, three or more
\* segments.  A signed segment is accepted: "-1:30" returns -30000.
C6_FailsUnlessTwoIntegers ==
  pc = "converted" =>
    /\ parsed.ok <=> TwoIntegerSegments(text)
    /\ ~parsed.ok => parsed.exc = "ValueError" /\ parsed.value = 0
    /\ parsed.ok =>
         parsed.value = (int_value(BeforeColon(text)) * 60 + int_value(AfterColon(text))) * 1000
    /\ text = TNeg130 => parsed = Return(-30000)
    /\ text \in {T10203, <<"3", "4", "5">>, <<"x", ":", "1">>} => ~parsed.ok

\* a text with a negative segment has been converted, to a negative value
C6_Witness ==
  /\ pc = "converted"
  /\ text = TNeg130
  /\ parsed.ok
  /\ parsed.value = -30000

----------------------------------------------------------------------------
(* Properties of get_song_url, under SpecMatch *)

TopUrl == "https://music.youtube.com/watch?v=top_video_id"

ListUrl == "https://music.youtube.com/watch?v=list_video_id"

\* the marker test of line 103 does not raise: the section list is reached
\* and has a first section
SectionsReached == data.path = "ok" /\ data.sections # <<>>

HasMarker(section) == MarkerKey \in section.keys

\* the section list the candidates are read from: without its first section
\* when that one has the marker key
Indexed == IF HasMarker(data.sections[1]) THEN Tail(data.sections) ELSE data.sections

\* both duration texts are found and well-formed
WellFormedPair(contents) ==
  /\ TopResultLength(contents).ok
  /\ FirstSongLength(contents).ok
  /\ convert_to_milliseconds(TopResultLength(contents).val).ok
  /\ convert_to_milliseconds(FirstSongLength(contents).val).ok

DeltaTop(contents) ==
  Abs(convert_to_milliseconds(TopResultLength(contents).val).value - song_info.length)

DeltaList(contents) ==
  Abs(convert_to_milliseconds(FirstSongLength(contents).val).value - song_info.length)

TopComplete(contents) == TopVideoId(contents).ok /\ TopVideoTitle(contents).ok

ListComplete(contents) == FirstSongVideoId(contents).ok /\ FirstSongVideoTitle(contents).ok

\* the case of the test: target 354000 ms, card "5:55", list item "6:07"
C1_TestCase ==
  /\ song_info.length = 354000
  /\ TopResultLength(Indexed).val = <<"5", ":", "5", "5">>
  /\ FirstSongLength(Indexed).val = <<"6", ":", "0", "7">>

\* C1: with two well-formed candidate durations, get_song_url selects the top
\* (card) candidate if and only if |parse(top) - target| < |parse(list) - target|,
\* and the first list candidate otherwise, a tie included; the url returned is
\* https://music.youtube.com/watch?v=<id> of the selected candidate, one candidate only.
C1_ClosestDuration ==
  (pc = "returned" /\ SectionsReached /\ WellFormedPair(Indexed)) =>
    /\ (TopComplete(Indexed) /\ ListComplete(Indexed)) => outcome.ok
    /\ outcome.ok =>
         /\ DeltaTop(Indexed) < DeltaList(Indexed) => outcome.url = TopUrl
         /\ DeltaTop(Indexed) >= DeltaList(Indexed) => outcome.url = ListUrl
         /\ C1_TestCase => outcome.url = TopUrl /\ DeltaTop(Indexed) = 1000

\* a tie between two complete candidates, and the list candidate returned
C1_Witness ==
  /\ pc = "returned"
  /\ SectionsReached
  /\ WellFormedPair(Indexed)
  /\ TopComplete(Indexed) /\ ListComplete(Indexed)
  /\ DeltaTop(Indexed) = DeltaList(Indexed)
  /\ outcome.ok
  /\ outcome.url = ListUrl

\* C4 (as claimed): every failure of get_song_url caused by the shape of the
\* document (the marker test included) or by a malformed duration text is the
\* ValueError naming the title and the artist; no KeyError, IndexError or
\* number-format error escapes.
C4_EveryFailureIsMatchError ==
  (pc = "returned" /\ ~outcome.ok) => outcome = MatchError(song_info)

\* C7 (as claimed), on the documents with a section after the first: when the
\* first section has the marker key, get_song_url has the same outcome as on
\* the document without that section.
C7_SameAsWithoutFirstSection ==
  ( /\ pc = "returned"
    /\ SectionsReached
    /\ HasMarker(data.sections[1])
    /\ Tail(data.sections) # <<>> ) =>
    outcome = get_song_url(song_info, Document("ok", Tail(data.sections)))

\* C7 (amended): on a document whose first section has the marker key,
\* get_song_url reads the candidates from the remaining sections as they are:
\* sections 0 and 1 of the remainder are taken as the card and the shelf, also
\* when the remainder is empty or starts with another marker section.  So the
\* outcome is that of get_song_url on the remainder whenever the remainder has
\* a first section without the marker key.  A document without the marker key
\* in its first section is indexed unchanged.
C7_OnlyLeadingSectionDiscarded ==
  (pc = "returned" /\ SectionsReached) =>
    /\ HasMarker(data.sections[1]) =>
         /\ outcome = ExtractAndSelect(song_info, Tail(data.sections))
         /\ (Tail(data.sections) # <<>> /\ ~HasMarker(data.sections[2])) =>
              outcome = get_song_url(song_info, Document("ok", Tail(data.sections)))
         /\ Tail(data.sections) = <<>> => outcome = MatchError(song_info)
         /\ (Tail(data.sections) # <<>> /\ CardKey \notin data.sections[2].keys) =>
              outcome = MatchError(song_info)
    /\ ~HasMarker(data.sections[1]) =>
         outcome = ExtractAndSelect(song_info, data.sections)

\* a marker section, then a card and a shelf: the match succeeds
C7_Witness ==
  /\ pc = "returned"
  /\ SectionsReached
  /\ Len(data.sections) = 3
  /\ HasMarker(data.sections[1])
  /\ ~HasMarker(data.sections[2])
  /\ outcome.ok

\* a candidate lacks its title, its duration text or its video id
TopIncomplete(contents) == ~TopResultLength(contents).ok \/ ~TopComplete(contents)

ListIncomplete(contents) == ~FirstSongLength(contents).ok \/ ~ListComplete(contents)

\* the duration texts that are present are well-formed
DurationsWellFormed(contents) ==
  /\ TopResultLength(contents).ok => convert_to_milliseconds(TopResultLength(contents).val).ok
  /\ FirstSongLength(contents).ok => convert_to_milliseconds(FirstSongLength(contents).val).ok

\* C8 (as claimed), on the documents where only a missing field can fail: when
\* either candidate lacks its title, duration text or video id, get_song_url
\* fails with the error carrying title and artist, also when the incomplete
\* candidate is the one that would not have been selected.
C8_FailsWhenEitherIncomplete ==
  ( /\ pc = "returned"
    /\ SectionsReached
    /\ DurationsWellFormed(Indexed)
    /\ TopIncomplete(Indexed) \/ ListIncomplete(Indexed) ) =>
    outcome = MatchError(song_info)

\* C8 (amended): get_song_url reads both duration texts before selecting, and
\* the title and video id of the selected candidate only.  The call fails when
\* a duration text is missing, and when the selected candidate lacks its title
\* or video id; it succeeds when only the candidate that is not selected lacks
\* its title or video id.  The failure is the ValueError carrying title and
\* artist when the first step to fail is a missing key or index inside the try
\* block; a malformed duration text read before that raises its own ValueError.
C8_SelectedCandidateOnly ==
  (pc = "returned" /\ SectionsReached) =>
    LET c == Indexed
        top == TopResultLength(c)
        lst == FirstSongLength(c)
    IN /\ (~top.ok \/ ~lst.ok) => ~outcome.ok
       /\ ~top.ok => outcome = MatchError(song_info)
       /\ (top.ok /\ convert_to_milliseconds(top.val).ok /\ ~lst.ok) =>
            outcome = MatchError(song_info)
       /\ (top.ok /\ ~convert_to_milliseconds(top.val).ok) =>
            outcome = Failed("ValueError", "invalid literal for int()")
       /\ WellFormedPair(c) =>
            IF DeltaTop(c) < DeltaList(c)
            THEN /\ TopComplete(c) => outcome.ok /\ outcome.url = TopUrl
                 /\ ~TopComplete(c) => outcome = MatchError(song_info)
            ELSE /\ ListComplete(c) => outcome.ok /\ outcome.url = ListUrl
                 /\ ~ListComplete(c) => outcome = MatchError(song_info)

\* the list candidate is selected and returned although the card has no video id
C8_Witness ==
  /\ pc = "returned"
  /\ SectionsReached
  /\ WellFormedPair(Indexed)
  /\ ~TopVideoId(Indexed).ok
  /\ ListComplete(Indexed)
  /\ outcome.ok
  /\ outcome.url = ListUrl

----------------------------------------------------------------------------
(* Properties of the download command, under Spec *)

\* get_song_urls has returned
BatchReturned == pc \in {"dispatch", "done"} /\ raised # "get_playlist_info"

\* the url of the candidate get_song_url selects for a song on DocBoth: the
\* card (0:03) for a target of 3000 ms, the list item (0:01) on the tie at 2000 ms
ExpectedUrl(song) == IF song.length = 3000 THEN TopUrl ELSE ListUrl

\* the urls expected of the songs whose attempt succeeded, in the order of the input
RECURSIVE ExpectedUrls(_, _)
ExpectedUrls(as, playlist) ==
  IF as = <<>> THEN <<>>
  ELSE IF Head(as).ok
       THEN <<ExpectedUrl(Head(playlist))>> \o ExpectedUrls(Tail(as), Tail(playlist))
       ELSE ExpectedUrls(Tail(as), Tail(playlist))

EventsOf(call) == SelectSeq(events, LAMBDA e : e.call = call)

\* C2: whatever tracks fail, get_song_urls never raises; it returns the urls of
\* the tracks that succeeded, in the order of the input, and a failing track
\* does not keep the later tracks from being attempted.
C2_FailuresAreSkipped ==
  /\ raised # "get_song_urls"
  /\ Len(urls) <= Len(playlist_info)
  /\ urls = ExpectedUrls(attempts, playlist_info)
  /\ BatchReturned =>
       /\ Len(attempts) = Len(playlist_info)
       /\ urls = OkUrls(attempts)

\* three tracks, the second failed: the urls of the first and the third are returned
C2_Witness ==
  /\ pc = "dispatch"
  /\ Len(playlist_info) = 3
  /\ attempts[1].ok /\ ~attempts[2].ok /\ attempts[3].ok
  /\ playlist_info[1].length = 2000 /\ playlist_info[3].length = 3000
  /\ urls = <<ListUrl, TopUrl>>

\* C3 (as claimed): one pacing delay follows every attempt, failed or not:
\* after a batch over n descriptors there have been n delays, the delay of
\* track i after its attempt and before the search of track i + 1.
C3_DelayAfterEveryAttempt ==
  /\ BatchReturned => Len(EventsOf("sleep")) = Len(playlist_info)
  /\ \A k \in 1..Len(events) :
       (events[k].call = "search" /\ events[k].track > 1) =>
         (k > 1 /\ events[k - 1].call = "sleep" /\ events[k - 1].track = events[k].track - 1)

\* C9: the exit code of the download command is 0 when the run completes and
\* 1 exactly when the playlist fetch or the download dispatch raises; track
\* failures, every track included, leave it 0.
C9_ExitCode ==
  /\ pc # "done" => exit_code = <<>>
  /\ pc = "done" =>
       /\ exit_code \in {<<0>>, <<1>>}
       /\ exit_code = <<1>> <=> raised \in {"get_playlist_info", "download_from_urls"}
       /\ exit_code = <<1>> =>
            \/ events = <<>> /\ downloads = <<>> /\ playlist_info = <<>>
            \/ Len(downloads) = 1
       /\ (Len(attempts) = Len(playlist_info) /\ urls = <<>> /\ items # <<>>
             /\ playlist_info # <<>>) => exit_code = <<0>>

\* every track of a playlist of three failed and the command exited with 0
C9_Witness ==
  /\ pc = "done"
  /\ Len(playlist_info) = 3
  /\ Len(attempts) = 3
  /\ \A i \in 1..3 : ~attempts[i].ok
  /\ exit_code = <<0>>

\* C10: when the fetch succeeds and a track resolves, the downloader is invoked
\* exactly once, after every descriptor has been attempted, with the resolved
\* urls in input order; when the fetch fails there is no search and no
\* invocation of the downloader.
C10_DownloaderInvokedOnce ==
  /\ Len(downloads) <= 1
  /\ downloads # <<>> =>
       /\ Len(attempts) = Len(playlist_info)
       /\ Len(EventsOf("search")) = Len(playlist_info)
       /\ downloads[1] = ExpectedUrls(attempts, playlist_info)
  /\ (pc = "done" /\ raised # "get_playlist_info" /\ \E i \in 1..Len(attempts) : attempts[i].ok)
       => Len(downloads) = 1
  /\ raised = "get_playlist_info" => events = <<>> /\ downloads = <<>>

\* the downloader has received the two urls resolved from a playlist of three
C10_Witness ==
  /\ pc = "done"
  /\ Len(playlist_info) = 3
  /\ ~attempts[1].ok
  /\ downloads = << <<ListUrl, TopUrl>> >>

----------------------------------------------------------------------------
(* Properties of get_playlist_info, under Spec *)

\* get_playlist_info has been called on a page the provider yielded
PageRead == pc # "fetch" /\ provider # <<>> /\ items = provider[1]

\* an item has its name, a first artist and a duration int() accepts
WellFormedItem(item) ==
  item.hasName /\ item.artists # <<>> /\ int_ok(item.totalMilliseconds)

\* the descriptor of a well-formed item of the model, by its name
DescriptorOf(item) ==
  IF item.name = "Song 1" THEN Song("Song 1", "Artist 1", 2000)
  ELSE Song("Song 2", "Artist 2", 3000)

\* C11: get_playlist_info is all-or-nothing over the first page: it returns one
\* descriptor (title, first artist's name, duration in ms) per item, in the
\* order of the page and with the same count, or, when an item has a missing
\* or malformed field, it fails as a whole and returns no partial list.  Only
\* the first page the provider yields is read.
C11_AllOrNothing ==
  /\ raised = "get_playlist_info" => playlist_info = <<>> /\ events = <<>>
  /\ (pc # "fetch" /\ raised # "get_playlist_info") =>
       /\ PageRead
       /\ Len(playlist_info) = Len(provider[1])
       /\ \A i \in 1..Len(provider[1]) :
            /\ WellFormedItem(provider[1][i])
            /\ playlist_info[i] = DescriptorOf(provider[1][i])
  /\ (PageRead /\ \E i \in 1..Len(items) : ~WellFormedItem(items[i])) =>
       raised = "get_playlist_info"
  /\ (pc # "fetch" /\ provider # <<>> /\ items = <<>> /\ provider[1] # <<>>) =>
       (raised = "get_playlist_info" /\ exit_code = <<1>>)

\* a first page whose third item is malformed, after two well-formed ones:
\* the fetch failed and no descriptor was returned
C11_Witness ==
  /\ PageRead
  /\ Len(items) = 3
  /\ WellFormedItem(items[1]) /\ WellFormedItem(items[2]) /\ ~WellFormedItem(items[3])
  /\ raised = "get_playlist_info"
  /\ playlist_info = <<>>

----------------------------------------------------------------------------
(* Properties of the searches of get_song_urls, under Spec *)

\* the query expected for a descriptor of the model
ExpectedQuery(song) ==
  IF song.length = 2000 THEN "Song 1 Artist 1" ELSE "Song 2 Artist 2"

\* C12: get_song_urls issues exactly one search per descriptor, in input
\* order, with the query "<title> <artist>": as many searches as descriptors
\* whatever the outcomes, no retry of a failed track, and no search for track
\* i + 1 before the attempt for track i has finished.
C12_OneSearchPerDescriptor ==
  LET searches == EventsOf("search") IN
  /\ Len(searches) = Len(attempts)
  /\ Len(searches) <= Len(playlist_info)
  /\ BatchReturned => Len(searches) = Len(playlist_info)
  /\ \A k \in 1..Len(searches) :
       /\ searches[k].track = k
       /\ searches[k].query = ExpectedQuery(playlist_info[k])
  /\ \A j \in 1..Len(events) :
       (events[j].call = "search" /\ events[j].track > 1) =>
         /\ j > 1
         /\ events[j - 1].track = events[j].track - 1
         /\ events[j - 1].call =
              IF attempts[events[j].track - 1].ok THEN "sleep" ELSE "search"

\* three tracks, the first two failed: three searches, one per track
C12_Witness ==
  /\ pc = "dispatch"
  /\ Len(playlist_info) = 3
  /\ ~attempts[1].ok /\ ~attempts[2].ok /\ attempts[3].ok
  /\ Len(EventsOf("search")) = 3
  /\ EventsOf("search")[2].query = "Song 2 Artist 2"

----------------------------------------------------------------------------
(* Properties of the client property, under Spec *)

\* C13: the search client of a PlaylistDownloader is not constructed before
\* the first access of the client property, is constructed at most once over
\* any sequence of searches, with the arguments "WEB_REMIX" and
\* "1.20250203.01.00", and every search of a batch uses that one client.
C13_ClientConstructedOnce ==
  LET made == EventsOf("InnerTube") IN
  /\ Len(made) <= 1
  /\ EventsOf("search") = <<>> => (client = "None" /\ made = <<>>)
  /\ EventsOf("search") # <<>> =>
       /\ client = "InnerTube"
       /\ events[1] = Event("InnerTube", 1, "WEB_REMIX 1.20250203.01.00", 0)
       /\ events[2].call = "search"
  /\ \A j \in 1..Len(events) : events[j].call = "InnerTube" => j = 1

\* three searches have been made with the client constructed before the first
C13_Witness ==
  /\ Len(EventsOf("search")) = 3
  /\ Len(EventsOf("InnerTube")) = 1
  /\ events[1].call = "InnerTube"
  /\ client = "InnerTube"

----------------------------------------------------------------------------
(* The title get_song_url returns, under SpecMatch *)

\* the title of the first column of the list item, by position of the run
ListTitleRuns == Indexed[2].shelf.contents[1].flexColumns[1].runs

\* C14 as stated: the returned title belongs to the candidate of the returned
\* URL, and for the list candidate it is the last text run of column[0] (for
\* the card candidate the card's title text).
C14_ListTitleIsLastRun ==
  (pc = "returned" /\ outcome.ok) =>
    \/ outcome.url = TopUrl /\ outcome.title = "Top title"
    \/ /\ outcome.url = ListUrl
       /\ outcome.title = ListTitleRuns[Len(ListTitleRuns)].text

\* C14, amended: the returned title belongs to the candidate of the returned
\* URL, and for the list candidate it is the first text run of column[0] (for
\* the card candidate the card's title text).
C14_ListTitleIsFirstRun ==
  (pc = "returned" /\ outcome.ok) =>
    \/ outcome.url = TopUrl /\ outcome.title = "Top title"
    \/ /\ outcome.url = ListUrl
       /\ outcome.title = ListTitleRuns[1].text

\* the list candidate was selected from an item whose title column has two
\* runs, and the first of them was returned
C14_Witness ==
  /\ pc = "returned"
  /\ outcome.ok
  /\ outcome.url = ListUrl
  /\ Len(ListTitleRuns) = 2
  /\ ListTitleRuns[1].text # ListTitleRuns[2].text
  /\ outcome.title = "First run"

----------------------------------------------------------------------------
(* Properties of download_from_urls, under Spec *)

\* the calls download_from_urls makes on a non-empty list when the
\* destination exists, and when it does not
CallsWhenPresent == <<Event("YoutubeDL", 0, "", 0), Event("download", 0, "", 0)>>

CallsWhenAbsent == <<Event("mkdir", 0, "parents=True", 0)>> \o CallsWhenPresent

\* C15: download_from_urls on an empty list returns normally and changes
\* nothing: no directory is created and the downloader is neither constructed
\* nor invoked; on a non-empty list the destination is created, with parents,
\* if and only if it does not exist, before the downloader is constructed and
\* invoked.
C15_DownloadFromUrlsEffect ==
  [][ (pc = "dispatch" /\ pc' = "done") =>
        IF urls = <<>>
        THEN /\ UNCHANGED <<dir_exists, mkdirs, downloads, events, raised>>
             /\ raised = ""
             /\ exit_code' = <<0>>
        ELSE /\ mkdirs' = IF dir_exists THEN mkdirs ELSE mkdirs + 1
             /\ dir_exists'
             /\ events' = events \o (IF dir_exists THEN CallsWhenPresent ELSE CallsWhenAbsent)
             /\ downloads' = Append(downloads, urls)
    ]_vars

\* download_from_urls has returned from an empty list, every track of a
\* playlist of three having failed, and the destination is still missing
C15_Witness ==
  /\ pc = "done"
  /\ Len(attempts) = 3
  /\ urls = <<>>
  /\ ~dir_exists
  /\ mkdirs = 0
  /\ downloads = <<>>
  /\ EventsOf("mkdir") = <<>> /\ EventsOf("YoutubeDL") = <<>> /\ EventsOf("download") = <<>>
  /\ exit_code = <<0>>

====
